---- MODULE Spec2Model ----
(***************************************************************************)
(* Model of dialogue_system/language_understanding/attribute_extraction/   *)
(* extractor.py: the NamedEntityExtractor (tagger lifecycle and the BIO    *)
(* span merge of extract) and the AttributeExtractor (location, genre and  *)
(* budget lookups).                                                        *)
(*                                                                         *)
(* Python strings are sequences of one-character strings.  The parser      *)
(* accepts only ASCII inside string literals, so a Japanese character is   *)
(* written by its reading: "SEN" 千, "HA" 葉, "KEN" 県, "GO" 五, "YEN" 円,  *)
(* "MEN" 麺, "DE" で, "SU" す, "RA" ラ; "5" is the ASCII digit and "W5" the  *)
(* full-width digit ５.                                                     *)
(***************************************************************************)
EXTENDS Integers, Sequences, FiniteSets, TLC

VARIABLES model_file, tagger_open, call, ret, pred_y, sent,
          locations, genres, text

vars == <<model_file, tagger_open, call, ret, pred_y, sent,
          locations, genres, text>>

ner_vars == <<model_file, tagger_open, call, ret, pred_y, sent>>

attr_vars == <<locations, genres, text>>

(***************************************************************************)
(* Bounds.                                                                 *)
(***************************************************************************)
\* longest label / token sequence handed to the tagger
MaxLen == 3

\* longest utterance handed to AttributeExtractor.extract
MaxTextLen == 4

(***************************************************************************)
(* Python string and list primitives.                                      *)
(***************************************************************************)
Range(s) == {s[k] : k \in 1..Len(s)}

\* str.startswith(c) for a one-character prefix
StartsWith(s, c) == Len(s) > 0 /\ s[1] = c

\* position of the first occurrence of character c in s, 0 when absent
RECURSIVE FindFrom(_, _, _)
FindFrom(s, c, k) ==
    IF k > Len(s) THEN 0
    ELSE IF s[k] = c THEN k
    ELSE FindFrom(s, c, k + 1)

\* str.split(sep) for a one-character separator: every separator cuts
RECURSIVE Split(_, _)
Split(s, sep) ==
    LET k == FindFrom(s, sep, 1)
    IN  IF k = 0 THEN <<s>>
        ELSE <<SubSeq(s, 1, k - 1)>> \o Split(SubSeq(s, k + 1, Len(s)), sep)

\* ''.join(list)
RECURSIVE Join(_)
Join(strs) ==
    IF strs = <<>> THEN <<>>
    ELSE Head(strs) \o Join(Tail(strs))

\* ''.join(set): the elements in the set's iteration order
RECURSIVE JoinSet(_)
JoinSet(S) ==
    IF S = {} THEN <<>>
    ELSE LET e == CHOOSE x \in S : TRUE
         IN  e \o JoinSet(S \ {e})

\* `sub in s`
IsSubstring(sub, s) ==
    \E k \in 0..(Len(s) - Len(sub)) : SubSeq(s, k + 1, k + Len(sub)) = sub

(***************************************************************************)
(* Labels and tokens the tagger works on.                                  *)
(***************************************************************************)
O == <<"O">>

B_LOC == <<"B", "-", "L", "O", "C">>

I_LOC == <<"I", "-", "L", "O", "C">>

B_GENRE == <<"B", "-", "G", "E", "N", "R", "E">>

I_GENRE == <<"I", "-", "G", "E", "N", "R", "E">>

\* a label whose TYPE itself contains the separator: B-X-Y, I-X-Y
B_X_Y == <<"B", "-", "X", "-", "Y">>

I_X_Y == <<"I", "-", "X", "-", "Y">>

Labels == {O, B_LOC, I_LOC, B_GENRE, I_GENRE, B_X_Y, I_X_Y}

LOC == <<"L", "O", "C">>

GENRE == <<"G", "E", "N", "R", "E">>

\* surface forms 千葉, 県, です, ラーメン
Chiba == <<"SEN", "HA">>

Ken == <<"KEN">>

Desu == <<"DE", "SU">>

Ramen == <<"RA", "MEN">>

Vocabulary == <<Chiba, Ken, Desu, Ramen>>

\* a token is (surface form, part of speech); extract reads only sent[i][0]
Token(surface) == <<surface, "POS">>

\* the utterances: windows of the vocabulary, every length up to MaxLen
Sentence(n, rot) ==
    [k \in 1..n |-> Token(Vocabulary[((k + rot - 1) % Len(Vocabulary)) + 1])]

LabelSeqs(n) == [1..n -> Labels]

(***************************************************************************)
(* NamedEntityExtractor.                                                   *)
(***************************************************************************)
Returned(v) == [raised |-> FALSE, value |-> v]

Raised == [raised |-> TRUE, value |-> <<>>]

\* self.__tagger.tag(xseq): the labels of the loaded model, an error of the
\* library when no model is open
TagClosedReturnsEmpty(is_open, labels) == Returned(IF is_open THEN labels ELSE <<>>)

Tag(is_open, labels) == IF is_open THEN Returned(labels) ELSE Raised

\* the inner while loop of extract: every I-label overwrites both stacks
RECURSIVE InnerLoop(_, _, _, _, _)
InnerLoop(labels, snt, i, word_stack, label_stack) ==
    IF i <= Len(labels) /\ StartsWith(labels[i], "I")
    THEN InnerLoop(labels, snt, i + 1, <<snt[i][1]>>, <<labels[i]>>)
    ELSE [i |-> i, word_stack |-> word_stack, label_stack |-> label_stack]

\* set([l.split('-')[1] for l in label_stack])
LabelTypes(label_stack) == {Split(l, "-")[2] : l \in Range(label_stack)}

\* the outer while loop of extract, from index i with the spans found so far
RECURSIVE OuterLoopMergeB(_, _, _, _)
OuterLoopMergeB(labels, snt, i, res) ==
    IF i > Len(labels) THEN res
    ELSE IF StartsWith(labels[i], "B")
    THEN LET run == InnerLoop(labels, snt, i + 1, <<snt[i][1]>>, <<labels[i]>>)
             skip == IF run.i <= Len(labels) /\ StartsWith(labels[run.i], "B")
                     THEN run.i + 1 ELSE run.i
         IN  OuterLoopMergeB(labels, snt, skip,
                   Append(res, <<JoinSet(LabelTypes(run.label_stack)), Join(run.word_stack)>>))
    ELSE OuterLoopMergeB(labels, snt, i + 1, res)

RECURSIVE OuterLoopOpenOnI(_, _, _, _)
OuterLoopOpenOnI(labels, snt, i, res) ==
    IF i > Len(labels) THEN res
    ELSE IF StartsWith(labels[i], "B") \/ StartsWith(labels[i], "I")
    THEN LET run == InnerLoop(labels, snt, i + 1, <<snt[i][1]>>, <<labels[i]>>)
         IN  OuterLoopOpenOnI(labels, snt, run.i,
                   Append(res, <<JoinSet(LabelTypes(run.label_stack)), Join(run.word_stack)>>))
    ELSE OuterLoopOpenOnI(labels, snt, i + 1, res)

RECURSIVE OuterLoop(_, _, _, _)
OuterLoop(labels, snt, i, res) ==
    IF i > Len(labels) THEN res
    ELSE IF StartsWith(labels[i], "B")
    THEN LET run == InnerLoop(labels, snt, i + 1, <<snt[i][1]>>, <<labels[i]>>)
         IN  OuterLoop(labels, snt, run.i,
                   Append(res, <<JoinSet(LabelTypes(run.label_stack)), Join(run.word_stack)>>))
    ELSE OuterLoop(labels, snt, i + 1, res)

\* NamedEntityExtractor.extract(xseq, sent)
ExtractSpans(is_open, labels, snt) ==
    LET tagged == Tag(is_open, labels)
    IN  IF tagged.raised THEN Raised
        ELSE Returned(OuterLoop(tagged.value, snt, 1, <<>>))

\* the labels evaluate reports on: set(lb.classes_) - {'O'}
Tagset(y_true) == Range(y_true) \ {O}

\* __init__: open the model file; a missing file is caught and printed
Construct ==
    /\ call = "none"
    /\ call' = "__init__"
    /\ tagger_open' = (model_file = "present")
    /\ ret' = Returned(<<>>)
    /\ UNCHANGED <<model_file, pred_y, sent, attr_vars>>

\* train: trainer.train(save_file), then self.__tagger.open(save_file)
TrainClosesOnFailure(ok) ==
    /\ call # "none"
    /\ call' = "train"
    /\ tagger_open' = ok
    /\ ret' = IF ok THEN Returned(<<>>) ELSE Raised
    /\ UNCHANGED <<model_file, pred_y, sent, attr_vars>>

Train(ok) ==
    /\ call # "none"
    /\ call' = "train"
    /\ tagger_open' = IF ok THEN TRUE ELSE tagger_open
    /\ ret' = IF ok THEN Returned(<<>>) ELSE Raised
    /\ UNCHANGED <<model_file, pred_y, sent, attr_vars>>

\* tagger(xseq)
Tagger ==
    /\ call # "none"
    /\ call' = "tagger"
    /\ ret' = Tag(tagger_open, pred_y)
    /\ UNCHANGED <<model_file, tagger_open, pred_y, sent, attr_vars>>

\* extract(xseq, sent)
Extract ==
    /\ call # "none"
    /\ call' = "extract"
    /\ ret' = ExtractSpans(tagger_open, pred_y, sent)
    /\ UNCHANGED <<model_file, tagger_open, pred_y, sent, attr_vars>>

\* evaluate(y_true, y_pred): a report over the tagset, the tagger untouched
Evaluate ==
    /\ call # "none"
    /\ call' = "evaluate"
    /\ ret' = Returned(Tagset(pred_y))
    /\ UNCHANGED <<model_file, tagger_open, pred_y, sent, attr_vars>>

Init ==
    /\ model_file \in {"present", "missing"}
    /\ tagger_open = FALSE
    /\ call = "none"
    /\ ret = Returned(<<>>)
    /\ \E n \in 0..MaxLen :
          /\ pred_y \in LabelSeqs(n)
          /\ \E rot \in 0..(Len(Vocabulary) - 1) : sent = Sentence(n, rot)
    /\ locations = <<>>
    /\ genres = <<>>
    /\ text = <<>>

Next ==
    \/ Construct
    \/ \E ok \in BOOLEAN : Train(ok)
    \/ Tagger
    \/ Extract
    \/ Evaluate

Spec == Init /\ [][Next]_vars

(***************************************************************************)
(* AttributeExtractor.                                                     *)
(***************************************************************************)
\* Python values of MAXIMUM_AMOUNT: an int or a str
PyInt(n) == <<"int", n>>

PyStr(s) == <<"str", s>>

\* the characters utterances are written in: 千 葉 県 五 5 ５ 円 麺
Alphabet == {"SEN", "HA", "KEN", "GO", "5", "W5", "YEN", "MEN"}

RECURSIVE StringsOfLen(_)
StringsOfLen(n) ==
    IF n = 0 THEN {<<>>}
    ELSE {Append(s, c) : s \in StringsOfLen(n - 1), c \in Alphabet}

Texts == UNION {StringsOfLen(n) : n \in 0..MaxTextLen}

\* read_locations(): the known locations in iteration order; 千葉, 千葉県, 葉県
ChibaKen == <<"SEN", "HA", "KEN">>

HaKen == <<"HA", "KEN">>

LocationDicts ==
    { <<>>,
      <<Chiba, ChibaKen>>,
      <<ChibaKen, Chiba>>,
      <<Chiba, HaKen, ChibaKen>> }

\* read_genres(): genre name -> food items, both in iteration order
Men == <<"MEN">>

Ha == <<"HA">>

RamenYa == <<"RA", "MEN", "YA">>

Washoku == <<"WA", "SHOKU">>

GenreEntry(name, foods) == [genre |-> name, foods |-> foods]

GenreDicts ==
    { <<>>,
      <<GenreEntry(RamenYa, <<Men>>)>>,
      <<GenreEntry(RamenYa, <<Men>>), GenreEntry(Washoku, <<Ha, Men>>)>>,
      <<GenreEntry(Washoku, <<ChibaKen, Ha>>), GenreEntry(RamenYa, <<Men, Ha>>)>> }

\* list.sort(key=len, reverse=True): stable, equal lengths keep their order
InsertByLenDesc(sorted, x) ==
    LET before == SelectSeq(sorted, LAMBDA y : Len(y) >= Len(x))
        after  == SelectSeq(sorted, LAMBDA y : Len(y) < Len(x))
    IN  before \o <<x>> \o after

RECURSIVE SortByLenDesc(_)
SortByLenDesc(strs) ==
    IF strs = <<>> THEN <<>>
    ELSE InsertByLenDesc(SortByLenDesc(SubSeq(strs, 1, Len(strs) - 1)), strs[Len(strs)])

\* __extract_location
ExtractLocationFirstFound(locs, txt) ==
    LET found == SelectSeq(locs, LAMBDA loc : IsSubstring(loc, txt))
    IN  IF Len(found) > 0 THEN found[1] ELSE <<>>

ExtractLocation(locs, txt) ==
    LET found  == SelectSeq(locs, LAMBDA loc : IsSubstring(loc, txt))
        sorted == SortByLenDesc(found)
    IN  IF Len(sorted) > 0 THEN sorted[1] ELSE <<>>

\* the inner loop of __extract_genre: is some food of the genre in the text
RECURSIVE AnyFoodIn(_, _)
AnyFoodIn(foods, txt) ==
    IF foods = <<>> THEN FALSE
    ELSE IF IsSubstring(Head(foods), txt) THEN TRUE
    ELSE AnyFoodIn(Tail(foods), txt)

\* __extract_genre
RECURSIVE ExtractGenreLastWins(_, _)
ExtractGenreLastWins(gs, txt) ==
    IF gs = <<>> THEN <<>>
    ELSE IF AnyFoodIn(gs[Len(gs)].foods, txt) THEN gs[Len(gs)].genre
    ELSE ExtractGenreLastWins(SubSeq(gs, 1, Len(gs) - 1), txt)

RECURSIVE ExtractGenre(_, _)
ExtractGenre(gs, txt) ==
    IF gs = <<>> THEN <<>>
    ELSE IF AnyFoodIn(Head(gs).foods, txt) THEN Head(gs).genre
    ELSE ExtractGenre(Tail(gs), txt)

\* the budget pattern  \d+円|[一二三四五六七八九十壱弐参拾百千万萬億兆〇]+円
AsciiDigits == <<"0", "1", "2", "3", "4", "5", "6", "7", "8", "9">>

\* the full-width digits ０..９, decimal digits of Unicode as well
FullWidthDigits == <<"W0", "W1", "W2", "W3", "W4", "W5", "W6", "W7", "W8", "W9">>

\* \d of a str pattern matches every Unicode decimal digit
DigitChars == Range(AsciiDigits) \cup Range(FullWidthDigits)

\* 一二三四五六七八九 十 壱弐参 拾 百 千 万 萬 億 兆 〇
KansujiChars ==
    {"ICHI", "NI", "SAN", "YON", "GO", "ROKU", "NANA", "HACHI", "KYU", "JU",
     "ICHI_DAIJI", "NI_DAIJI", "SAN_DAIJI", "JU_DAIJI", "HYAKU", "SEN", "MAN",
     "MAN_DAIJI", "OKU", "CHO", "ZERO"}

Yen == "YEN"

\* length of the run of characters of class cls that starts at p
RECURSIVE RunLen(_, _, _)
RunLen(txt, p, cls) ==
    IF p <= Len(txt) /\ txt[p] \in cls THEN 1 + RunLen(txt, p + 1, cls) ELSE 0

\* the pattern tried at p: index of the closing 円, 0 when there is no match;
\* the first alternative is tried first and a greedy run must be followed by 円
MatchEndAt(txt, p) ==
    LET d == RunLen(txt, p, DigitChars)
        k == RunLen(txt, p, KansujiChars)
    IN  IF d > 0 /\ p + d <= Len(txt) /\ txt[p + d] = Yen THEN p + d
        ELSE IF k > 0 /\ p + k <= Len(txt) /\ txt[p + k] = Yen THEN p + k
        ELSE 0

\* re.findall(pattern, text) scanning from p: non-overlapping, left to right
RECURSIVE FindAll(_, _)
FindAll(txt, p) ==
    IF p > Len(txt) THEN <<>>
    ELSE LET e == MatchEndAt(txt, p)
         IN  IF e = 0 THEN FindAll(txt, p + 1)
             ELSE <<SubSeq(txt, p, e)>> \o FindAll(txt, e + 1)

\* kansuji2arabic: value of a numeral character
DigitValue(c) ==
    CASE c \in Range(AsciiDigits) -> (CHOOSE k \in 1..10 : AsciiDigits[k] = c) - 1
      [] c \in Range(FullWidthDigits) -> (CHOOSE k \in 1..10 : FullWidthDigits[k] = c) - 1
      [] c = "ZERO" -> 0
      [] c \in {"ICHI", "ICHI_DAIJI"} -> 1
      [] c \in {"NI", "NI_DAIJI"} -> 2
      [] c \in {"SAN", "SAN_DAIJI"} -> 3
      [] c = "YON" -> 4
      [] c = "GO" -> 5
      [] c = "ROKU" -> 6
      [] c = "NANA" -> 7
      [] c = "HACHI" -> 8
      [] c = "KYU" -> 9

\* the multiplier characters 十 拾 百 千 万 萬 億 (兆 exceeds the integers checked)
UnitChars == {"JU", "JU_DAIJI", "HYAKU", "SEN", "MAN", "MAN_DAIJI", "OKU"}

UnitValue(c) ==
    CASE c \in {"JU", "JU_DAIJI"} -> 10
      [] c = "HYAKU" -> 100
      [] c = "SEN" -> 1000
      [] c \in {"MAN", "MAN_DAIJI"} -> 10000
      [] c = "OKU" -> 100000000

RECURSIVE NumeralValue(_, _, _)
NumeralValue(s, total, cur) ==
    IF s = <<>> THEN total + cur
    ELSE IF Head(s) \in UnitChars
    THEN NumeralValue(Tail(s), total + (IF cur = 0 THEN 1 ELSE cur) * UnitValue(Head(s)), 0)
    ELSE NumeralValue(Tail(s), total, cur * 10 + DigitValue(Head(s)))

\* kansuji2arabic(budget_str): the integer a numeral string writes; the empty
\* string is handed back as it is
Kansuji2Arabic(s) == IF s = <<>> THEN PyStr(<<>>) ELSE PyInt(NumeralValue(s, 0, 0))

\* __extract_budget
ExtractBudgetZeroDefault(txt) ==
    LET matchOB    == FindAll(txt, 1)
        budget_str == IF Len(matchOB) > 0
                      THEN SubSeq(matchOB[1], 1, Len(matchOB[1]) - 1)
                      ELSE <<"0">>
    IN  Kansuji2Arabic(budget_str)

ExtractBudgetLastMatch(txt) ==
    LET matchOB    == FindAll(txt, 1)
        last       == matchOB[Len(matchOB)]
        budget_str == IF Len(matchOB) > 0 THEN SubSeq(last, 1, Len(last) - 1) ELSE <<>>
    IN  Kansuji2Arabic(budget_str)

ExtractBudget(txt) ==
    LET matchOB    == FindAll(txt, 1)
        budget_str == IF Len(matchOB) > 0
                      THEN SubSeq(matchOB[1], 1, Len(matchOB[1]) - 1)
                      ELSE <<>>
    IN  Kansuji2Arabic(budget_str)

\* AttributeExtractor.extract(text)
AttributeExtract ==
    /\ call' = "attribute_extract"
    /\ ret' = Returned([LOCATION |-> ExtractLocation(locations, text),
                        GENRE |-> ExtractGenre(genres, text),
                        MAXIMUM_AMOUNT |-> ExtractBudget(text)])
    /\ UNCHANGED <<model_file, tagger_open, pred_y, sent, attr_vars>>

\* AttributeExtractor.__init__ has loaded both dictionaries
InitAttr ==
    /\ locations \in LocationDicts
    /\ genres \in GenreDicts
    /\ text \in Texts
    /\ call = "none"
    /\ ret = Returned(<<>>)
    /\ model_file = "missing"
    /\ tagger_open = FALSE
    /\ pred_y = <<>>
    /\ sent = <<>>

NextAttr == AttributeExtract

SpecAttr == InitAttr /\ [][NextAttr]_vars

(***************************************************************************)
(* Properties of NamedEntityExtractor.                                     *)
(***************************************************************************)
\* positions of the labels that start with B, and the k-th of them
BPositions(labels) == {b \in 1..Len(labels) : StartsWith(labels[b], "B")}

KthB(labels, k) ==
    CHOOSE b \in BPositions(labels) :
        Cardinality({j \in BPositions(labels) : j <= b}) = k

\* last index of the maximal run B I* that starts at b
RunEnd(labels, b) ==
    CHOOSE e \in b..Len(labels) :
        /\ \A j \in (b + 1)..e : StartsWith(labels[j], "I")
        /\ e = Len(labels) \/ ~StartsWith(labels[e + 1], "I")

\* the TYPE of a label PREFIX-TYPE: everything after the first '-'
TypeOfLabel(label) == SubSeq(label, FindFrom(label, "-", 1) + 1, Len(label))

ExtractReturned == call = "extract" /\ ~ret.raised

\* C1: once the tagger holds a model (opened at construction or by train) it
\* holds one after every further train, tagger, extract and evaluate call.
TrainedStaysTrained == [][tagger_open => tagger_open']_vars

TrainedAfterFailedTrain == tagger_open /\ call = "train" /\ ret.raised

\* C2: construction with a missing model file returns an object without a
\* model, and every tagger or extract call made while no model is open
\* raises instead of returning labels or spans.
UntrainedCallsFail ==
    /\ (call = "__init__" /\ model_file = "missing") => (~ret.raised /\ ~tagger_open)
    /\ (~tagger_open /\ call \in {"tagger", "extract"}) => ret.raised

UntrainedExtractRaised ==
    model_file = "missing" /\ ~tagger_open /\ call = "extract" /\ ret.raised

\* C3 (as claimed): every run B I* yields the pair of the TYPE and the
\* surface form of the run's last token, where the TYPE of a label is what
\* follows its first '-'; B-LOC I-LOC O on 千葉 県 です gives [LOC, 県] and a
\* lone B-GENRE on ラーメン gives [GENRE, ラーメン].
LastTokenWins ==
    ExtractReturned =>
        /\ Len(ret.value) = Cardinality(BPositions(pred_y))
        /\ \A k \in 1..Len(ret.value) :
              LET e == RunEnd(pred_y, KthB(pred_y, k))
              IN  ret.value[k] = <<TypeOfLabel(pred_y[e]), sent[e][1]>>
        /\ (pred_y = <<B_LOC, I_LOC, O>> /\ sent = Sentence(3, 0))
              => ret.value = << <<LOC, Ken>> >>
        /\ (pred_y = <<B_GENRE>> /\ sent = Sentence(1, 3))
              => ret.value = << <<GENRE, Ramen>> >>

\* C4: extract returns one pair per label that starts with B, adjacent and
\* final B-labels included, and the k-th pair is the one of the k-th B-label:
\* its text is the surface form that closes that label's run.
OnePairPerBInOrder ==
    ExtractReturned =>
        /\ Len(ret.value) = Cardinality(BPositions(pred_y))
        /\ \A k \in 1..Len(ret.value) :
              ret.value[k][2] = sent[RunEnd(pred_y, KthB(pred_y, k))][1]

AdjacentAndFinalBExtracted ==
    /\ ExtractReturned
    /\ Len(pred_y) >= 2
    /\ StartsWith(pred_y[Len(pred_y) - 1], "B")
    /\ StartsWith(pred_y[Len(pred_y)], "B")
    /\ Len(ret.value) >= 2

\* C5: with a model open, extract raises nothing, and a label sequence with
\* no B-label (only O, or O and orphaned I-labels, or empty) gives no span.
NoBNoSpan ==
    (call = "extract" /\ tagger_open) =>
        /\ ~ret.raised
        /\ (BPositions(pred_y) = {}) => ret.value = <<>>

OrphanISkipped ==
    /\ ExtractReturned
    /\ BPositions(pred_y) = {}
    /\ \E k \in 1..Len(pred_y) : StartsWith(pred_y[k], "I")
    /\ \E k \in 1..Len(pred_y) : pred_y[k] = O
    /\ ret.value = <<>>

\* C6 (as claimed): the TYPE of every emitted span is the whole substring
\* after the first '-' of the label it is taken from, also when that
\* substring contains a '-'.
TypeIsWholeRemainder ==
    ExtractReturned =>
        \A k \in 1..Len(ret.value) :
            k <= Cardinality(BPositions(pred_y)) =>
                ret.value[k][1] = TypeOfLabel(pred_y[RunEnd(pred_y, KthB(pred_y, k))])

(***************************************************************************)
(* Properties of AttributeExtractor.                                       *)
(***************************************************************************)
AttributeExtracted == call = "attribute_extract" /\ ~ret.raised

\* the dictionary entries that occur in the text
Occurring(locs, txt) == {l \in Range(locs) : IsSubstring(l, txt)}

\* 千葉県で麺
ChibaKenNoodles == <<"SEN", "HA", "KEN", "MEN">>

\* C7: the location returned is an entry of LOCATIONS that occurs in the text
\* and no entry occurring in the text is longer; {千葉, 千葉県} on 千葉県で麺
\* gives 千葉県; the empty string is returned exactly when no entry occurs.
LongestLocationWins ==
    AttributeExtracted =>
        LET loc == ret.value.LOCATION
            occ == Occurring(locations, text)
        IN  /\ (loc = <<>>) <=> (occ = {})
            /\ occ # {} => (loc \in occ /\ \A l \in occ : Len(loc) >= Len(l))
            /\ (Range(locations) = {Chiba, ChibaKen} /\ text = ChibaKenNoodles)
                  => loc = ChibaKen

LongerLocationListedSecond ==
    /\ AttributeExtracted
    /\ locations = <<Chiba, ChibaKen>>
    /\ text = ChibaKenNoodles
    /\ ret.value.LOCATION = ChibaKen

\* is some food item of the genre a substring of the text
GenreOccurs(entry, txt) == \E f \in Range(entry.foods) : IsSubstring(f, txt)

\* C8: the genre returned is the first genre, in declaration order, one of
\* whose food items occurs in the text, so no earlier genre has a food item
\* in the text; {ラーメン屋: {麺}} on a text with 麺 gives ラーメン屋; the empty
\* string is returned exactly when no food item of any genre occurs.
FirstGenreWins ==
    AttributeExtracted =>
        LET g   == ret.value.GENRE
            hit == {k \in 1..Len(genres) : GenreOccurs(genres[k], text)}
        IN  /\ (g = <<>>) <=> (hit = {})
            /\ hit # {} =>
                  \E k \in hit : /\ g = genres[k].genre
                                 /\ \A j \in 1..(k - 1) : j \notin hit
            /\ (genres = <<GenreEntry(RamenYa, <<Men>>)>> /\ IsSubstring(Men, text))
                  => g = RamenYa

EarlierGenreChosenOfTwo ==
    /\ AttributeExtracted
    /\ Len(genres) = 2
    /\ GenreOccurs(genres[1], text)
    /\ GenreOccurs(genres[2], text)
    /\ ~IsSubstring(genres[1].foods[1], text)
    /\ ret.value.GENRE = genres[1].genre

\* the occurrences <<i, j>> of the budget pattern: text[i..j-1] is a run of
\* digits of the given class, or a run of traditional numerals, and text[j] is 円
BudgetMatches(txt, digits) ==
    {m \in (1..Len(txt)) \X (1..Len(txt)) :
        /\ m[1] < m[2]
        /\ txt[m[2]] = Yen
        /\ \/ \A k \in m[1]..(m[2] - 1) : txt[k] \in digits
           \/ \A k \in m[1]..(m[2] - 1) : txt[k] \in KansujiChars}

\* the numeral of the leftmost occurrence, the empty string when there is none
LeftmostNumeral(txt, digits) ==
    LET ms == BudgetMatches(txt, digits)
    IN  IF ms = {} THEN <<>>
        ELSE LET m == CHOOSE m \in ms : \A n \in ms : m[1] <= n[1]
             IN  SubSeq(txt, m[1], m[2] - 1)

FirstAsciiOrKansujiBudget ==
    AttributeExtracted =>
        ret.value.MAXIMUM_AMOUNT =
            Kansuji2Arabic(LeftmostNumeral(text, Range(AsciiDigits)))

\* C10 (amended): the amount is the conversion of the numeral of the leftmost
\* run of decimal digits of any script (ASCII or, say, full-width), or of
\* traditional numerals, followed by 円; later occurrences do not count, and
\* 五千円 gives 5000.
FirstBudgetMatchConverted ==
    AttributeExtracted =>
        /\ ret.value.MAXIMUM_AMOUNT =
              Kansuji2Arabic(LeftmostNumeral(text, DigitChars))
        /\ (Len(text) >= 3 /\ SubSeq(text, 1, 3) = <<"GO", "SEN", "YEN">>)
              => ret.value.MAXIMUM_AMOUNT = PyInt(5000)

FirstOfTwoBudgetsTaken ==
    /\ AttributeExtracted
    /\ text = <<"W5", "YEN", "SEN", "YEN">>
    /\ ret.value.MAXIMUM_AMOUNT = PyInt(5)

====
